---- MODULE Spec2Model ----
(***************************************************************************)
(* State-machine model of the admin feedback view                          *)
(* src/src/lib/components/admin/Evaluations/Feedbacks.svelte:              *)
(* the feedback table (delete, export), the analysis panel (toggle,        *)
(* filter, search, refresh) and the share-to-community handshake.          *)
(*                                                                         *)
(* Strings are sequences of one-character strings, so that toLowerCase,    *)
(* trim and includes are computed as the code computes them.               *)
(***************************************************************************)
EXTENDS Integers, Sequences, FiniteSets, TLC

VARIABLES
    feedbacks,              \* line 25: the full record list shown in the table
    page,                   \* line 32: the page of the table
    originalFeedbacksData,  \* line 26: the analysis snapshot
    parsedFeedbacksData,    \* line 27: the filtered list shown in the panel
    showFeedbackAnalysis,   \* line 28
    activeFilter,           \* line 29
    searchQuery,            \* line 30
    totalItems,             \* line 84
    positiveCount,          \* line 85
    negativeCount,          \* line 86
    pendingDeletes,         \* ids whose deleteFeedbackById call is awaited (line 95)
    pendingRefreshes,       \* awaited exportAllFeedbacks calls of refresh (line 273), in issue order
    pendingExports,         \* number of awaited exportAllFeedbacks calls of export (line 132)
    deletedIds,             \* history: ids whose delete call resolved to a truthy value
    overlappedDeletes,      \* history: awaited deletes during which another delete succeeded
    savedFiles,             \* the blobs the latest step handed to saveAs (line 141)
    shares,                 \* one entry per share action: its closure and listener (lines 104-129)
    conversation,           \* the value handed to formatConversation (line 588)
    conversationHtml,       \* the markup formatConversation returned for it
    toast,                  \* the notification the latest step raised, "none" if none
    lastEvent               \* history: the handler step that produced this state

tableVars    == <<feedbacks, page>>
analysisVars == <<originalFeedbacksData, parsedFeedbacksData, showFeedbackAnalysis,
                  activeFilter, searchQuery, totalItems, positiveCount, negativeCount>>
netVars      == <<pendingDeletes, pendingRefreshes, pendingExports, deletedIds,
                  overlappedDeletes>>
shareVars    == <<shares>>
renderVars   == <<conversation, conversationHtml>>
vars         == <<feedbacks, page, deletedIds, overlappedDeletes, conversation,
                  conversationHtml, originalFeedbacksData, parsedFeedbacksData, showFeedbackAnalysis,
                  activeFilter, searchQuery, totalItems, positiveCount, negativeCount,
                  pendingDeletes, pendingRefreshes, pendingExports, savedFiles,
                  shares, toast, lastEvent>>

-----------------------------------------------------------------------------
(* Bounds *)

\* awaited network calls (delete + refresh + export) at one time
MaxInFlight == 2
\* records of a snapshot handed to the filter
MaxSnapshotLen == 3
\* characters of a search string handed to the filter
MaxQueryLen == 2
\* share actions started
MaxShares == 2

-----------------------------------------------------------------------------
(* Feedback records (type Feedback, lines 35-75).  An optional field that  *)
(* is absent is absent from the record's domain.                           *)

F1 == [id |-> 1, data |-> [rating |-> 1, model_id |-> "m1"], user |-> "u1", updated_at |-> 10,
       snapshot |-> [chat |-> [title |-> <<"A", "b">>, chat |-> [messages |-> << >>]]]]

F2 == [id |-> 2, data |-> [rating |-> -1, model_id |-> "m2"], user |-> "u2", updated_at |-> 20]

F3 == [id |-> 3, data |-> [rating |-> 0, model_id |-> "m1"], user |-> "u1", updated_at |-> 30,
       snapshot |-> [chat |-> [title |-> << >>,
                               chat |-> [messages |->
                                   << [role |-> "user", content |-> <<"b", " ", "a">>],
                                      [role |-> "assistant", content |-> <<"B">>,
                                       feedbackId |-> "fb3"] >>]]]]

F4 == [id |-> 4, data |-> [rating |-> 1, model_id |-> "m2"], user |-> "u2", updated_at |-> 40,
       snapshot |-> [chat |-> [title |-> <<"b">>]]]

F5 == [id |-> 5, data |-> [rating |-> -1, model_id |-> "m1"], user |-> "u1", updated_at |-> 50,
       snapshot |-> [chat |-> [title |-> <<"a", " ", "B">>,
                               chat |-> [messages |-> << [role |-> "assistant"] >>]]]]

\* the list the parent hands to the component (export let feedbacks)
InitialFeedbacks == <<F1, F2, F3>>

\* what exportAllFeedbacks can resolve to
Exports == { << >>, <<F4, F2>>, <<F1, F2, F3, F4>> }

FeedbackIds == {1, 2, 3, 4}

FilterTypes == {"all", "positive", "negative"}

\* values typed into the search box
Queries == { << >>, <<" ">>, <<"B">>, <<" ", "a">> }

-----------------------------------------------------------------------------
(* String primitives *)

Has(r, f) == f \in DOMAIN r

LowerChar(c) == CASE c = "A" -> "a" [] c = "B" -> "b" [] OTHER -> c

ToLowerCase(s) == [i \in 1..Len(s) |-> LowerChar(s[i])]

RECURSIVE TrimStart(_)
TrimStart(s) == IF s = << >> THEN s
                ELSE IF Head(s) = " " THEN TrimStart(Tail(s)) ELSE s

RECURSIVE TrimEnd(_)
TrimEnd(s) == IF s = << >> THEN s
              ELSE IF s[Len(s)] = " " THEN TrimEnd(SubSeq(s, 1, Len(s) - 1)) ELSE s

Trim(s) == TrimEnd(TrimStart(s))

Includes(s, q) == \E i \in 1..(Len(s) - Len(q) + 1) : SubSeq(s, i, i + Len(q) - 1) = q

-----------------------------------------------------------------------------
(* Record access with optional chaining *)

HasRating(item) == Has(item, "data") /\ Has(item.data, "rating")

RatingPositive(item) == HasRating(item) /\ item.data.rating > 0

RatingNegative(item) == HasRating(item) /\ item.data.rating < 0

HasTitle(item) == /\ Has(item, "snapshot")
                  /\ Has(item.snapshot, "chat")
                  /\ Has(item.snapshot.chat, "title")

HasMessages(item) == /\ Has(item, "snapshot")
                     /\ Has(item.snapshot, "chat")
                     /\ Has(item.snapshot.chat, "chat")
                     /\ Has(item.snapshot.chat.chat, "messages")

MessageMatches(message, lowerQuery) ==
    /\ Has(message, "content")
    /\ message.content # << >>
    /\ Includes(ToLowerCase(message.content), lowerQuery)

\* variant of lines 211-227 that searches the title only
MatchesQueryTitleOnly(item, lowerQuery) ==
    /\ HasTitle(item)
    /\ item.snapshot.chat.title # << >>
    /\ Includes(ToLowerCase(item.snapshot.chat.title), lowerQuery)

MatchesQuery(item, lowerQuery) ==
    IF /\ HasTitle(item)
       /\ item.snapshot.chat.title # << >>
       /\ Includes(ToLowerCase(item.snapshot.chat.title), lowerQuery)
    THEN TRUE
    ELSE IF HasMessages(item)
         THEN \E i \in 1..Len(item.snapshot.chat.chat.messages) :
                  MessageMatches(item.snapshot.chat.chat.messages[i], lowerQuery)
         ELSE FALSE

\* variant of line 203 with >= for >
RatingFilterInclusive(items, filterType) ==
    IF filterType = "positive"
    THEN SelectSeq(items, LAMBDA item : HasRating(item) /\ item.data.rating >= 0)
    ELSE IF filterType = "negative" THEN SelectSeq(items, RatingNegative)
    ELSE items

RatingFilter(items, filterType) ==
    IF filterType = "positive" THEN SelectSeq(items, RatingPositive)
    ELSE IF filterType = "negative" THEN SelectSeq(items, RatingNegative)
    ELSE items

Reverse(items) == [i \in 1..Len(items) |-> items[Len(items) + 1 - i]]

\* variant of lines 209-228 that returns the matches last-first
SearchFilterReversed(items, query) ==
    IF Trim(query) # << >>
    THEN Reverse(SelectSeq(items, LAMBDA item : MatchesQuery(item, ToLowerCase(query))))
    ELSE items

SearchFilter(items, query) ==
    IF Trim(query) # << >>
    THEN SelectSeq(items, LAMBDA item : MatchesQuery(item, ToLowerCase(query)))
    ELSE items

\* variant of lines 199-228 whose search starts again from the whole snapshot
FilteredItemsSearchOverAll(items, filterType, query) ==
    IF Trim(query) # << >>
    THEN SearchFilter(items, query)
    ELSE RatingFilter(items, filterType)

\* the list filterFeedbackItems computes from `items`
FilteredItems(items, filterType, query) ==
    SearchFilter(RatingFilter(items, filterType), query)

\* the forEach of processFeedbackData: one pass, positive else negative
RECURSIVE CountRatings(_)
CountRatings(items) ==
    IF items = << >> THEN [positive |-> 0, negative |-> 0]
    ELSE LET rest == CountRatings(Tail(items))
             item == Head(items)
         IN  IF RatingPositive(item)
             THEN [rest EXCEPT !.positive = @ + 1]
             ELSE IF RatingNegative(item)
                  THEN [rest EXCEPT !.negative = @ + 1]
                  ELSE rest

Ids(items) == { items[i].id : i \in 1..Len(items) }

\* line 33: rows per page
PerPage == 10

\* Array.prototype.slice(begin, end) for 0 <= begin <= end
Slice(items, begin, end) ==
    SubSeq(items, begin + 1, IF end < Len(items) THEN end ELSE Len(items))

\* line 33: $: paginatedFeedbacks = feedbacks.slice((page - 1) * 10, page * 10)
PaginatedFeedbacks == Slice(feedbacks, (page - 1) * PerPage, page * PerPage)

\* the number of pages the Pagination control offers for count items (line 471)
PageCount(count) == (count + PerPage - 1) \div PerPage

\* a JavaScript value that is an array, as opposed to one that is not
JsArray(items) == [type |-> "array", items |-> items]

\* JSON.stringify: an injective encoding of the value
JsonStringify(value) == [json |-> value]

\* what a step shows and downloads: toasts are transient and a download leaves the page
Outputs(notification, files) == toast' = notification /\ savedFiles' = files

InFlight == Cardinality(pendingDeletes) + Len(pendingRefreshes) + pendingExports

-----------------------------------------------------------------------------
(* Initial state: the component after construction (lines 25-32, 84-86)    *)

Init ==
    /\ feedbacks = InitialFeedbacks
    /\ originalFeedbacksData = << >>
    /\ parsedFeedbacksData = << >>
    /\ showFeedbackAnalysis = FALSE
    /\ activeFilter = "all"
    /\ searchQuery = << >>
    /\ totalItems = 0
    /\ positiveCount = 0
    /\ negativeCount = 0
    /\ page = 1
    /\ pendingDeletes = {}
    /\ deletedIds = {}
    /\ overlappedDeletes = {}
    /\ conversation = JsArray(<< >>)
    /\ conversationHtml = << >>
    /\ pendingRefreshes = << >>
    /\ pendingExports = 0
    /\ savedFiles = {}
    /\ shares = << >>
    /\ toast = "none"
    /\ lastEvent = [op |-> "init"]

-----------------------------------------------------------------------------
(* Analysis panel *)

\* variant of filterFeedbackItems that narrows the list currently displayed
FilterFeedbackItemsFromFiltered(filterType, query) ==
    /\ activeFilter' = filterType
    /\ searchQuery' = query
    /\ parsedFeedbacksData' = FilteredItems(parsedFeedbacksData, filterType, query)

\* filterFeedbackItems (lines 194-235); reads the snapshot as assigned so far
FilterFeedbackItems(filterType, query) ==
    /\ activeFilter' = filterType
    /\ searchQuery' = query
    /\ parsedFeedbacksData' = FilteredItems(originalFeedbacksData', filterType, query)

\* variant of processFeedbackData that does not reset the two counters (lines 178-179)
ProcessFeedbackDataNoReset(feedbackData) ==
    /\ originalFeedbacksData' = feedbackData
    /\ totalItems' = Len(feedbackData)
    /\ positiveCount' = positiveCount + CountRatings(feedbackData).positive
    /\ negativeCount' = negativeCount + CountRatings(feedbackData).negative
    /\ FilterFeedbackItems("all", << >>)

\* variant of processFeedbackData whose else branch counts without its test (line 187)
ProcessFeedbackDataElseNegative(feedbackData) ==
    /\ originalFeedbacksData' = feedbackData
    /\ totalItems' = Len(feedbackData)
    /\ positiveCount' = CountRatings(feedbackData).positive
    /\ negativeCount' = Len(feedbackData) - CountRatings(feedbackData).positive
    /\ FilterFeedbackItems("all", << >>)

\* processFeedbackData (lines 173-192)
ProcessFeedbackData(feedbackData) ==
    /\ originalFeedbacksData' = feedbackData
    /\ totalItems' = Len(feedbackData)
    /\ positiveCount' = CountRatings(feedbackData).positive
    /\ negativeCount' = CountRatings(feedbackData).negative
    /\ FilterFeedbackItems("all", << >>)

\* variant of line 168 without the test of showFeedbackAnalysis
MustPopulateOnAnyToggle(shown) == Len(parsedFeedbacksData) = 0

\* the condition under which showing the panel populates the snapshot (line 168)
MustPopulate(shown) == shown /\ Len(parsedFeedbacksData) = 0

\* toggleFeedbackAnalysis (lines 166-171); the chart button is rendered while the
\* table is non-empty (line 296), the close button while the panel is shown (line 486)
ToggleFeedbackAnalysis ==
    /\ feedbacks # << >> \/ showFeedbackAnalysis
    /\ showFeedbackAnalysis' = ~showFeedbackAnalysis
    /\ IF MustPopulate(showFeedbackAnalysis')
       THEN ProcessFeedbackData(feedbacks)
       ELSE UNCHANGED <<originalFeedbacksData, parsedFeedbacksData, activeFilter,
                        searchQuery, totalItems, positiveCount, negativeCount>>
    /\ lastEvent' = [op |-> "toggle"]
    /\ Outputs("none", {})
    /\ UNCHANGED <<tableVars, netVars, shareVars, renderVars>>

\* the All / Positive / Negative buttons (lines 527-544)
FilterClick(filterType) ==
    /\ showFeedbackAnalysis
    /\ originalFeedbacksData' = originalFeedbacksData
    /\ FilterFeedbackItems(filterType, searchQuery)
    /\ lastEvent' = [op |-> "filter"]
    /\ Outputs("none", {})
    /\ UNCHANGED <<showFeedbackAnalysis, totalItems, positiveCount, negativeCount,
                   tableVars, netVars, shareVars, renderVars>>

\* the search box: bind:value and on:input of one input event (lines 518-524)
SearchInput(query) ==
    /\ showFeedbackAnalysis
    /\ originalFeedbacksData' = originalFeedbacksData
    /\ FilterFeedbackItems(activeFilter, query)
    /\ lastEvent' = [op |-> "search"]
    /\ Outputs("none", {})
    /\ UNCHANGED <<showFeedbackAnalysis, totalItems, positiveCount, negativeCount,
                   tableVars, netVars, shareVars, renderVars>>

-----------------------------------------------------------------------------
(* Network calls.  An awaited call ends in one of three ways: it resolves  *)
(* to a truthy value, resolves to a falsy one, or rejects.                 *)

Outcomes == {"truthy", "falsy", "rejected"}

\* the catch of an awaited call: toast.error(err) (lines 96, 133, 280)
CatchToast(outcome) == IF outcome = "rejected" THEN "error" ELSE "none"

\* variant of line 100 that filters the list the component was created with
DeleteApplyFromInitial(items, feedbackId, outcome) ==
    IF outcome = "truthy"
    THEN SelectSeq(InitialFeedbacks, LAMBDA f : f.id # feedbackId)
    ELSE items

\* variant of line 100 with the comparison inverted (=== for !==)
DeleteApplyInverted(items, feedbackId, outcome) ==
    IF outcome = "truthy"
    THEN SelectSeq(items, LAMBDA f : f.id = feedbackId)
    ELSE items

\* variant of lines 99-101 without the `if (response)` test
DeleteApplyAlways(items, feedbackId, outcome) ==
    SelectSeq(items, LAMBDA f : f.id # feedbackId)

\* line 100: feedbacks.filter((f) => f.id !== feedbackId), applied when the response is truthy
DeleteApply(items, feedbackId, outcome) ==
    IF outcome = "truthy"
    THEN SelectSeq(items, LAMBDA f : f.id # feedbackId)
    ELSE items

\* deleteFeedbackHandler up to its await (line 95); the row's menu is rendered for a
\* record of the table (lines 357, 420-423)
DeleteRequest(feedbackId) ==
    /\ feedbackId \in Ids(PaginatedFeedbacks)
    /\ feedbackId \notin pendingDeletes
    /\ InFlight < MaxInFlight
    /\ pendingDeletes' = pendingDeletes \cup {feedbackId}
    /\ lastEvent' = [op |-> "deleteRequest"]
    /\ Outputs("none", {})
    /\ UNCHANGED <<tableVars, analysisVars, pendingRefreshes, pendingExports, deletedIds,
                   overlappedDeletes, shareVars, renderVars>>

\* variant of lines 95-101 that processes the reduced list into the analysis
DeleteResponseReprocessing(feedbackId, outcome) ==
    /\ feedbackId \in pendingDeletes
    /\ pendingDeletes' = pendingDeletes \ {feedbackId}
    /\ feedbacks' = DeleteApply(feedbacks, feedbackId, outcome)
    /\ deletedIds' = IF outcome = "truthy" THEN deletedIds \cup {feedbackId} ELSE deletedIds
    /\ overlappedDeletes' = IF outcome = "truthy"
                            THEN (overlappedDeletes \cup pendingDeletes) \ {feedbackId}
                            ELSE overlappedDeletes \ {feedbackId}
    /\ IF outcome = "truthy"
       THEN ProcessFeedbackData(feedbacks')
       ELSE UNCHANGED <<originalFeedbacksData, parsedFeedbacksData, activeFilter,
                        searchQuery, totalItems, positiveCount, negativeCount>>
    /\ Outputs(CatchToast(outcome), {})
    /\ lastEvent' = [op |-> "deleteResponse", id |-> feedbackId, outcome |-> outcome,
                     overlapped |-> feedbackId \in overlappedDeletes]
    /\ UNCHANGED <<page, showFeedbackAnalysis, pendingRefreshes, pendingExports, shareVars,
                   renderVars>>

\* deleteFeedbackHandler after its await (lines 95-101)
DeleteResponse(feedbackId, outcome) ==
    /\ feedbackId \in pendingDeletes
    /\ pendingDeletes' = pendingDeletes \ {feedbackId}
    /\ feedbacks' = DeleteApply(feedbacks, feedbackId, outcome)
    /\ deletedIds' = IF outcome = "truthy" THEN deletedIds \cup {feedbackId} ELSE deletedIds
    /\ overlappedDeletes' = IF outcome = "truthy"
                            THEN (overlappedDeletes \cup pendingDeletes) \ {feedbackId}
                            ELSE overlappedDeletes \ {feedbackId}
    /\ Outputs(CatchToast(outcome), {})
    /\ lastEvent' = [op |-> "deleteResponse", id |-> feedbackId, outcome |-> outcome,
                     overlapped |-> feedbackId \in overlappedDeletes]
    /\ UNCHANGED <<page, analysisVars, pendingRefreshes, pendingExports, shareVars,
                   renderVars>>

\* the Pagination control, rendered while there are more than PerPage records
\* (line 470), assigns the page it is bound to
SetPage(p) ==
    /\ Len(feedbacks) > PerPage
    /\ p \in 1..PageCount(Len(feedbacks))
    /\ page' = p
    /\ lastEvent' = [op |-> "page", page |-> p]
    /\ Outputs("none", {})
    /\ UNCHANGED <<feedbacks, analysisVars, netVars, shareVars, renderVars>>

\* exportHandler up to its await (line 132); the button is rendered while the table
\* is non-empty (line 296)
ExportRequest ==
    /\ feedbacks # << >>
    /\ InFlight < MaxInFlight
    /\ pendingExports' = pendingExports + 1
    /\ lastEvent' = [op |-> "exportRequest"]
    /\ Outputs("none", {})
    /\ UNCHANGED <<tableVars, analysisVars, pendingDeletes, pendingRefreshes, deletedIds,
                   overlappedDeletes, shareVars, renderVars>>

\* lines 137-142: the blob saved when the export resolved to a truthy value
ExportSave(outcome, data) ==
    IF outcome = "truthy" THEN {JsonStringify(data)} ELSE {}

\* exportHandler after its await (lines 132-142)
ExportResponse(outcome, data) ==
    /\ pendingExports > 0
    /\ pendingExports' = pendingExports - 1
    /\ Outputs(CatchToast(outcome), ExportSave(outcome, data))
    /\ lastEvent' = [op |-> "exportResponse", outcome |-> outcome]
    /\ UNCHANGED <<tableVars, analysisVars, pendingDeletes, pendingRefreshes, deletedIds,
                   overlappedDeletes, shareVars, renderVars>>

\* refreshFeedbacksAnalysis up to its await (lines 269-273); the button is rendered
\* while the panel is shown (lines 475, 480-485).  Each awaited call carries a flag:
\* has a call issued after it already been applied?
RefreshRequest ==
    /\ showFeedbackAnalysis
    /\ InFlight < MaxInFlight
    /\ pendingRefreshes' = Append(pendingRefreshes, FALSE)
    /\ Outputs("info", {})
    /\ lastEvent' = [op |-> "refreshRequest"]
    /\ UNCHANGED <<tableVars, analysisVars, pendingDeletes, pendingExports, deletedIds,
                   overlappedDeletes, shareVars, renderVars>>

\* variant of line 274 that drops a response once a later call has been applied
RefreshAppliesUnlessStale(i, outcome) == outcome = "truthy" /\ ~pendingRefreshes[i]

\* does refreshFeedbacksAnalysis process the response of the call at position i?
\* (line 274: every truthy response, whatever was applied before)
RefreshApplies(i, outcome) == outcome = "truthy"

\* the awaited calls left after the one at position i has ended
RemainingRefreshes(i, applied) ==
    [j \in 1..(Len(pendingRefreshes) - 1) |->
        IF j < i THEN (pendingRefreshes[j] \/ applied) ELSE pendingRefreshes[j + 1]]

\* refreshFeedbacksAnalysis after its await (lines 273-282)
RefreshResponse(i, outcome, data) ==
    /\ i \in 1..Len(pendingRefreshes)
    /\ IF RefreshApplies(i, outcome)
       THEN /\ ProcessFeedbackData(data)
            /\ Outputs("success", {})
       ELSE /\ UNCHANGED <<originalFeedbacksData, parsedFeedbacksData, activeFilter,
                           searchQuery, totalItems, positiveCount, negativeCount>>
            /\ Outputs(CatchToast(outcome), {})
    /\ pendingRefreshes' = RemainingRefreshes(i, RefreshApplies(i, outcome))
    /\ lastEvent' = [op |-> "refreshResponse", outcome |-> outcome,
                     data |-> IF outcome = "truthy" THEN data ELSE << >>,
                     stale |-> pendingRefreshes[i]]
    /\ UNCHANGED <<showFeedbackAnalysis, tableVars, pendingDeletes, pendingExports,
                   deletedIds, overlappedDeletes, shareVars, renderVars>>

-----------------------------------------------------------------------------
(* Share to community (lines 104-129) *)

\* line 114
Url == "https://openwebui.com"

Origins == {Url, "https://elsewhere.example"}

MessageData == {"loaded", "ping"}

\* what window.open returned (line 115): a window, or null when the popup is blocked
Tabs == {"window", "null"}

\* variant of line 109 that takes out the snapshot only
StripSnapshotOnly(f) == [k \in (DOMAIN f) \ {"snapshot"} |-> f[k]]

\* line 109: const { snapshot, user, ...rest } = f
StripPrivate(f) == [k \in (DOMAIN f) \ {"snapshot", "user"} |-> f[k]]

\* lines 108-111
FeedbacksToShare(items) == [i \in 1..Len(items) |-> StripPrivate(items[i])]

\* shareHandler (lines 104-129); the button is rendered while the table is non-empty
\* (line 439).  The continuation of `await window.open` runs before any other event.
ShareHandler(tab) ==
    /\ feedbacks # << >>
    /\ Len(shares) < MaxShares
    /\ shares' = Append(shares, [feedbacksToShare |-> FeedbacksToShare(feedbacks),
                                 tab |-> tab,
                                 listening |-> TRUE,
                                 posted |-> << >>])
    /\ Outputs("success", {})
    /\ lastEvent' = [op |-> "share"]
    /\ UNCHANGED <<tableVars, analysisVars, netVars, renderVars>>

\* window.postMessage(message, targetOrigin) on a window showing windowOrigin: the
\* message is dispatched when targetOrigin is "*" or equals the window's origin
PostMessage(message, targetOrigin, windowOrigin) ==
    IF targetOrigin = "*" \/ targetOrigin = windowOrigin
    THEN << [message |-> message, receivedBy |-> windowOrigin] >>
    ELSE << >>

\* variant of line 119 without the origin test
OriginAcceptedAny(event) == TRUE

\* line 119
OriginAccepted(event) == event.origin = Url

\* variant of line 124 that leaves the listener registered
ListenerKept(s) == TRUE

\* line 124; reached only when line 121 did not throw
ListenerAfterPost(s) == FALSE

\* variant of line 121 that builds the payload from feedbacks as it is on arrival
MessagePayloadCurrent(s) == FeedbacksToShare(feedbacks)

\* line 121: the payload is the feedbacksToShare of the handler's closure
MessagePayload(s) == s.feedbacksToShare

\* messageHandler (lines 118-126) of share action s, on `event`, while its tab shows
\* tabOrigin; tab.postMessage throws when tab is null
MessageHandler(s, event, tabOrigin) ==
    IF ~OriginAccepted(event) THEN s
    ELSE IF event.data = "loaded"
         THEN IF s.tab = "null" THEN s
              ELSE [s EXCEPT !.posted = @ \o PostMessage(JsonStringify(MessagePayload(s)),
                                                         "*", tabOrigin),
                             !.listening = ListenerAfterPost(s)]
         ELSE s

\* a message event on window: every registered listener runs (line 128)
WindowMessage(event, tabOrigins) ==
    /\ \E i \in 1..Len(shares) : shares[i].listening
    /\ shares' = [i \in 1..Len(shares) |->
                     IF shares[i].listening
                     THEN MessageHandler(shares[i], event, tabOrigins[i])
                     ELSE shares[i]]
    /\ lastEvent' = [op |-> "message", origin |-> event.origin, data |-> event.data,
                     posts |-> Cardinality({ i \in 1..Len(shares) :
                                  Len(shares'[i].posted) > Len(shares[i].posted) })]
    /\ Outputs("none", {})
    /\ UNCHANGED <<tableVars, analysisVars, netVars, renderVars>>

-----------------------------------------------------------------------------
(* Conversation rendering (lines 237-266, 587-591).  Markup is a sequence   *)
(* of tokens: one token per fixed piece of the template and one per         *)
(* character of interpolated text; join('') is concatenation.               *)

\* conversation lengths are drawn up to
MaxMessages == 2

\* a field read as a condition: absent, null and '' are falsy
Truthy(record, field) == Has(record, field) /\ record[field] # ""

\* the same for a field holding text
TruthyText(record, field) == Has(record, field) /\ record[field] # << >>

\* messages of a chat: role, optional content, annotation, feedbackId, error
M1 == [role |-> "user", content |-> <<"a">>]
M2 == [role |-> "assistant", content |-> <<"b">>, annotation |-> "good"]
M3 == [role |-> "assistant", content |-> <<"b", "a">>, feedbackId |-> "fb1"]
M4 == [role |-> "system", error |-> [content |-> <<"e">>]]
M5 == [role |-> "user", content |-> <<"a">>, annotation |-> ""]
M6 == [role |-> "assistant", content |-> <<"b">>, error |-> [content |-> <<"e">>],
       annotation |-> "bad", feedbackId |-> "fb2"]
M7 == [role |-> "user", feedbackId |-> "fb3"]
M8 == [role |-> "assistant", content |-> <<"a">>]
Messages == {M1, M2, M3, M4, M5, M6, M7, M8}

RECURSIVE SeqsUpTo(_, _)
SeqsUpTo(S, n) ==
    IF n = 0 THEN {<< >>}
    ELSE LET shorter == SeqsUpTo(S, n - 1)
         IN  shorter \cup { Append(q, x) : q \in shorter, x \in S }

\* values formatConversation may be handed: arrays of messages, and truthy
\* values that are not arrays (the template's guard on line 587 passes them)
Conversations ==
    { JsArray(q) : q \in SeqsUpTo(Messages, MaxMessages) }
        \cup {[type |-> "object"], [type |-> "string"]}

\* line 239: the markup returned for a value that is not an array
Placeholder == <<"<p>No conversation data available</p>">>

\* pieces of the template on lines 258-264
BlockOpen == "<div class="
BlockClose == "</div>"
UserClass == "bg-gray-50"
AssistantClass == "bg-gray-100"
Highlight == "border-red-500"
UserLabel == "User"
AssistantLabel == "Assistant"
ErrorOpen == "<div class=text-red-500>"
ErrorClose == "</div error>"
FeedbackMarker == "[This message received feedback]"

\* variant of line 249 that reads the annotation only
HasFeedbackAnnotationOnly(message) == Truthy(message, "annotation")

\* line 249: hasFeedback = message.annotation || message.feedbackId
HasFeedback(message) == Truthy(message, "annotation") \/ Truthy(message, "feedbackId")

\* lines 253-256: the content, followed by the error's content when there is one
DisplayContent(message) ==
    (IF TruthyText(message, "content") THEN message.content ELSE << >>)
        \o (IF Has(message, "error") /\ TruthyText(message.error, "content")
            THEN <<ErrorOpen>> \o message.error.content \o <<ErrorClose>>
            ELSE << >>)

\* lines 243-264: the block of one message
FormatMessage(message) ==
    LET isUser == message.role = "user"
        className == IF isUser THEN UserClass ELSE AssistantClass
        hasFeedback == HasFeedback(message)
        feedbackHighlight == IF hasFeedback THEN Highlight ELSE ""
    IN  <<BlockOpen, className, feedbackHighlight,
          IF isUser THEN UserLabel ELSE AssistantLabel>>
            \o DisplayContent(message)
            \o (IF hasFeedback THEN <<FeedbackMarker>> ELSE << >>)
            \o <<BlockClose>>

RECURSIVE Join(_)
Join(parts) == IF parts = << >> THEN << >> ELSE Head(parts) \o Join(Tail(parts))

\* lines 237-266
FormatConversation(messages) ==
    IF messages.type # "array"
    THEN Placeholder
    ELSE Join([i \in 1..Len(messages.items) |-> FormatMessage(messages.items[i])])

\* line 588: the template renders a conversation
RenderConversation ==
    /\ conversationHtml' = FormatConversation(conversation)
    /\ lastEvent' = [op |-> "format"]
    /\ Outputs("none", {})
    /\ UNCHANGED <<conversation, tableVars, analysisVars, netVars, shareVars>>

-----------------------------------------------------------------------------
(* Specifications *)

\* the table and the analysis panel
Next ==
    \/ ToggleFeedbackAnalysis
    \/ \E filterType \in FilterTypes : FilterClick(filterType)
    \/ \E query \in Queries : SearchInput(query)
    \/ \E feedbackId \in FeedbackIds : DeleteRequest(feedbackId)
    \/ \E feedbackId \in FeedbackIds, outcome \in Outcomes : DeleteResponse(feedbackId, outcome)
    \/ ExportRequest
    \/ \E outcome \in Outcomes, data \in Exports : ExportResponse(outcome, data)
    \/ RefreshRequest
    \/ \E i \in 1..MaxInFlight, outcome \in Outcomes, data \in Exports :
           RefreshResponse(i, outcome, data)

Spec == Init /\ [][Next]_vars

\* the table and the share handshake; the share handler reads feedbacks only and the
\* panel's handlers never read the listeners
NextShare ==
    \/ \E tab \in Tabs : ShareHandler(tab)
    \/ \E origin \in Origins, data \in MessageData, tabOrigins \in [1..MaxShares -> Origins] :
           WindowMessage([origin |-> origin, data |-> data], tabOrigins)
    \/ \E feedbackId \in FeedbackIds : DeleteRequest(feedbackId)
    \/ \E feedbackId \in FeedbackIds, outcome \in Outcomes : DeleteResponse(feedbackId, outcome)

SpecShare == Init /\ [][NextShare]_vars

\* the filter as a function: the panel is shown on a snapshot that a refresh
\* loaded, and is filtered and searched
SnapshotRecords == {F1, F2, F3, F4, F5}

Snapshots ==
    { snapshot \in UNION { [1..n -> SnapshotRecords] : n \in 0..MaxSnapshotLen } :
          \A i, j \in 1..Len(snapshot) : i # j => snapshot[i].id # snapshot[j].id }

SearchChars == {"a", "B", " "}

SearchStrings == UNION { [1..n -> SearchChars] : n \in 0..MaxQueryLen }

InitFilter ==
    /\ feedbacks = InitialFeedbacks
    /\ originalFeedbacksData \in Snapshots
    /\ parsedFeedbacksData = originalFeedbacksData
    /\ showFeedbackAnalysis = TRUE
    /\ activeFilter = "all"
    /\ searchQuery = << >>
    /\ totalItems = Len(originalFeedbacksData)
    /\ positiveCount = CountRatings(originalFeedbacksData).positive
    /\ negativeCount = CountRatings(originalFeedbacksData).negative
    /\ page = 1
    /\ pendingDeletes = {}
    /\ deletedIds = {}
    /\ overlappedDeletes = {}
    /\ conversation = JsArray(<< >>)
    /\ conversationHtml = << >>
    /\ pendingRefreshes = << >>
    /\ pendingExports = 0
    /\ savedFiles = {}
    /\ shares = << >>
    /\ toast = "none"
    /\ lastEvent = [op |-> "init"]

NextFilter ==
    \/ \E filterType \in FilterTypes : FilterClick(filterType)
    \/ \E query \in SearchStrings : SearchInput(query)

SpecFilter == InitFilter /\ [][NextFilter]_vars

\* the table with one record more than a page holds
LongFeedbacks ==
    [i \in 1..(PerPage + 1) |->
        [id |-> i, data |-> [rating |-> 1, model_id |-> "m1"], user |-> "u1", updated_at |-> i]]

\* the rows whose delete button is pressed: the first two rows and the last one
DeletedRows == {1, 2, PerPage + 1}

InitTable ==
    /\ feedbacks = LongFeedbacks
    /\ page = 1
    /\ originalFeedbacksData = << >>
    /\ parsedFeedbacksData = << >>
    /\ showFeedbackAnalysis = FALSE
    /\ activeFilter = "all"
    /\ searchQuery = << >>
    /\ totalItems = 0
    /\ positiveCount = 0
    /\ negativeCount = 0
    /\ pendingDeletes = {}
    /\ pendingRefreshes = << >>
    /\ pendingExports = 0
    /\ deletedIds = {}
    /\ overlappedDeletes = {}
    /\ savedFiles = {}
    /\ shares = << >>
    /\ conversation = JsArray(<< >>)
    /\ conversationHtml = << >>
    /\ toast = "none"
    /\ lastEvent = [op |-> "init"]

NextTable ==
    \/ \E p \in 1..PageCount(PerPage + 1) : SetPage(p)
    \/ \E feedbackId \in DeletedRows : DeleteRequest(feedbackId)
    \/ \E feedbackId \in DeletedRows, outcome \in Outcomes : DeleteResponse(feedbackId, outcome)

SpecTable == InitTable /\ [][NextTable]_vars

\* formatConversation as a function: every conversation value up to MaxMessages
InitFormat ==
    /\ feedbacks = InitialFeedbacks
    /\ page = 1
    /\ originalFeedbacksData = << >>
    /\ parsedFeedbacksData = << >>
    /\ showFeedbackAnalysis = FALSE
    /\ activeFilter = "all"
    /\ searchQuery = << >>
    /\ totalItems = 0
    /\ positiveCount = 0
    /\ negativeCount = 0
    /\ pendingDeletes = {}
    /\ pendingRefreshes = << >>
    /\ pendingExports = 0
    /\ deletedIds = {}
    /\ overlappedDeletes = {}
    /\ savedFiles = {}
    /\ shares = << >>
    /\ conversation \in Conversations
    /\ conversationHtml = << >>
    /\ toast = "none"
    /\ lastEvent = [op |-> "init"]

NextFormat == RenderConversation

SpecFormat == InitFormat /\ [][NextFormat]_vars

-----------------------------------------------------------------------------
(* Properties *)

RefreshApplied(e) == e.op = "refreshResponse" /\ e.outcome = "truthy"

Rejected(e, op) == e.op = op /\ e.outcome = "rejected"

ValidAck(e) == e.op = "message" /\ e.origin = Url /\ e.data = "loaded"

\* the number of records of items with a rating above (sign = 1) or below (sign = -1) zero
NumberWithSign(items, sign) ==
    Cardinality({ i \in 1..Len(items) : items[i].data.rating * sign > 0 })

\* the position of the record with this id
PositionOf(items, id) == CHOOSE i \in 1..Len(items) : items[i].id = id

\* C1: in every reachable state the displayed list is the current filter mode and
\* the current search query applied to the retained original snapshot.
C1_DisplayedIsFilterOfOriginal ==
    parsedFeedbacksData = FilteredItems(originalFeedbacksData, activeFilter, searchQuery)

\* a search has run under a rating mode and shows a proper, non-empty part of the snapshot
C1_Witness ==
    /\ lastEvent.op = "search"
    /\ activeFilter = "positive"
    /\ searchQuery = <<"B">>
    /\ parsedFeedbacksData # << >>
    /\ Len(parsedFeedbacksData) < Len(originalFeedbacksData)

\* C2: a successful refresh replaces the snapshot by the fetched export, recomputes
\* the statistics from it, keeps activeFilter and searchQuery as they were and shows
\* the new snapshot filtered by them.
C2_RefreshKeepsFilterAndQuery ==
    [][RefreshApplied(lastEvent') =>
          /\ originalFeedbacksData' = lastEvent'.data
          /\ totalItems' = Len(lastEvent'.data)
          /\ positiveCount' = NumberWithSign(lastEvent'.data, 1)
          /\ negativeCount' = NumberWithSign(lastEvent'.data, -1)
          /\ activeFilter' = activeFilter
          /\ searchQuery' = searchQuery
          /\ parsedFeedbacksData' =
                 FilteredItems(lastEvent'.data, activeFilter, searchQuery)]_vars

\* C3: showing the panel while the snapshot is non-empty leaves the snapshot, the
\* three statistics, activeFilter and searchQuery unchanged.
C3_ShowKeepsNonEmptySnapshot ==
    [][(/\ lastEvent'.op = "toggle"
        /\ ~showFeedbackAnalysis
        /\ showFeedbackAnalysis'
        /\ originalFeedbacksData # << >>) =>
          UNCHANGED <<originalFeedbacksData, totalItems, positiveCount, negativeCount,
                      activeFilter, searchQuery>>]_vars

\* the three statistics describe the whole snapshot
StatsDescribeSnapshot ==
    /\ totalItems = Len(originalFeedbacksData)
    /\ positiveCount = NumberWithSign(originalFeedbacksData, 1)
    /\ negativeCount = NumberWithSign(originalFeedbacksData, -1)

\* C4: in every reachable state totalItems, positiveCount and negativeCount count the
\* records, the positive and the negative records of the whole snapshot, and a
\* filter-mode or search step changes none of the three.
C4_StatsOverWholeSnapshot ==
    /\ []StatsDescribeSnapshot
    /\ [][lastEvent'.op \in {"filter", "search"} =>
             UNCHANGED <<totalItems, positiveCount, negativeCount>>]_vars

\* the statistics of a snapshot with a neutral record, seen through a narrowing filter
C4_Witness ==
    /\ lastEvent.op = "filter"
    /\ activeFilter = "negative"
    /\ Len(parsedFeedbacksData) < totalItems
    /\ positiveCount > 0
    /\ negativeCount > 0
    /\ positiveCount + negativeCount < totalItems

\* C5: a successful delete of id removes exactly the record with that id: the ids
\* left are the former ids without id, every record left is a former record, in the
\* same relative order, and none is added.
C5_DeleteRemovesExactlyOne ==
    [][(lastEvent'.op = "deleteResponse" /\ lastEvent'.outcome = "truthy") =>
          /\ Ids(feedbacks') = Ids(feedbacks) \ {lastEvent'.id}
          /\ Len(feedbacks') = Cardinality(Ids(feedbacks'))
          /\ \A a \in 1..Len(feedbacks') :
                 feedbacks'[a] = feedbacks[PositionOf(feedbacks, feedbacks'[a].id)]
          /\ \A a, b \in 1..Len(feedbacks') :
                 a < b => PositionOf(feedbacks, feedbacks'[a].id)
                              < PositionOf(feedbacks, feedbacks'[b].id)]_vars

\* the middle record was deleted and its two neighbours are left, in order
C5_Witness ==
    /\ lastEvent.op = "deleteResponse"
    /\ lastEvent.outcome = "truthy"
    /\ lastEvent.id = 2
    /\ feedbacks = <<F1, F3>>

\* C6: a rejected delete, export or refresh call raises an error notification and
\* changes no component state: feedbacks, the snapshot, the displayed list, the
\* statistics, the filter mode, the query and the panel's visibility stay as they
\* were, and no file is saved.
C6_FailedCallChangesNothing ==
    [][(\/ Rejected(lastEvent', "deleteResponse")
        \/ Rejected(lastEvent', "exportResponse")
        \/ Rejected(lastEvent', "refreshResponse")) =>
          /\ toast' = "error"
          /\ savedFiles' = {}
          /\ UNCHANGED <<feedbacks, originalFeedbacksData, parsedFeedbacksData,
                         showFeedbackAnalysis, activeFilter, searchQuery,
                         totalItems, positiveCount, negativeCount, shares>>]_vars

\* a refresh was rejected while the panel showed a filtered, searched snapshot
C6_Witness ==
    /\ Rejected(lastEvent, "refreshResponse")
    /\ toast = "error"
    /\ originalFeedbacksData # << >>
    /\ activeFilter = "positive"
    /\ searchQuery = <<"B">>
    /\ parsedFeedbacksData # << >>

\* C7: the snapshot and the statistics are those of the refresh response that
\* resolved last, also when a call issued after it had been applied before.
C7_LastResolvedRefreshWins ==
    RefreshApplied(lastEvent) =>
        /\ originalFeedbacksData = lastEvent.data
        /\ totalItems = Len(lastEvent.data)
        /\ positiveCount = NumberWithSign(lastEvent.data, 1)
        /\ negativeCount = NumberWithSign(lastEvent.data, -1)

\* both calls have resolved and the one issued first resolved last
C7_Witness ==
    /\ RefreshApplied(lastEvent)
    /\ lastEvent.stale
    /\ pendingRefreshes = << >>
    /\ originalFeedbacksData = lastEvent.data
    /\ originalFeedbacksData # << >>

\* C8: every share action transmits its payload at most once, and once it has
\* transmitted its listener is no longer registered.
C8_PayloadPostedAtMostOnce ==
    \A i \in 1..Len(shares) :
        /\ Len(shares[i].posted) <= 1
        /\ shares[i].posted # << >> => ~shares[i].listening

\* a valid 'loaded' message arrives after a share action has transmitted, and
\* transmits nothing
C8_Witness ==
    /\ ValidAck(lastEvent)
    /\ lastEvent.posts = 0
    /\ \E i \in 1..Len(shares) : Len(shares[i].posted) = 1

\* C9: a message from another origin, or one that is not the 'loaded' token,
\* transmits nothing and leaves every listener registered; a listener is removed
\* only by a step that handles a valid acknowledgment.
C9_InvalidMessageIgnored ==
    [][/\ (lastEvent'.op = "message" /\ ~ValidAck(lastEvent')) => shares' = shares
       /\ \A i \in 1..Len(shares) :
              (shares[i].listening /\ ~shares'[i].listening) => ValidAck(lastEvent')
       /\ \A i \in 1..Len(shares) :
              shares'[i].posted # shares[i].posted => ValidAck(lastEvent')]_vars

\* a 'loaded' token from another origin reached a listener whose tab is open
C9_Witness ==
    /\ lastEvent.op = "message"
    /\ lastEvent.origin # Url
    /\ lastEvent.data = "loaded"
    /\ \E i \in 1..Len(shares) :
           /\ shares[i].tab = "window"
           /\ shares[i].listening
           /\ shares[i].posted = << >>

\* C10: every transmitted payload is received by a window showing the fixed
\* external origin.
C10_PayloadOnlyToFixedOrigin ==
    \A i \in 1..Len(shares) :
        \A k \in 1..Len(shares[i].posted) : shares[i].posted[k].receivedBy = Url

\* every message posted by a share action is its payload, and no record of it has a
\* snapshot or a user field
PostedPayloadsArePrivate ==
    \A i \in 1..Len(shares) :
        \A k \in 1..Len(shares[i].posted) :
            /\ shares[i].posted[k].message = JsonStringify(shares[i].feedbacksToShare)
            /\ \A j \in 1..Len(shares[i].feedbacksToShare) :
                   /\ ~Has(shares[i].feedbacksToShare[j], "snapshot")
                   /\ ~Has(shares[i].feedbacksToShare[j], "user")

\* C11: every record of every transmitted payload has neither a snapshot nor a user
\* field; the payload a share action builds has one record per record of feedbacks,
\* in the same order, each with every other field of its record unchanged.
C11_SharedRecordsStripped ==
    /\ []PostedPayloadsArePrivate
    /\ [][lastEvent'.op = "share" =>
             LET payload == shares'[Len(shares')].feedbacksToShare
             IN  /\ Len(payload) = Len(feedbacks)
                 /\ \A j \in 1..Len(payload) :
                        /\ DOMAIN payload[j] = (DOMAIN feedbacks[j]) \ {"snapshot", "user"}
                        /\ \A k \in DOMAIN payload[j] : payload[j][k] = feedbacks[j][k]]_vars

\* the payload of the three initial records, two of them with a snapshot, was transmitted
C11_Witness ==
    \E i \in 1..Len(shares) :
        /\ Len(shares[i].posted) = 1
        /\ Len(shares[i].posted[1].message.json) = 3
        /\ shares[i].posted[1].message.json[1].id = 1
        /\ shares[i].posted[1].message.json[3].data = F3.data

Range(items) == { items[i] : i \in 1..Len(items) }

\* the rating predicate of a filter mode
RatingPredicate(mode, record) ==
    CASE mode = "positive" -> record.data.rating > 0
      [] mode = "negative" -> record.data.rating < 0
      [] OTHER -> TRUE

\* C12: with an empty query the displayed list holds exactly the records of the
\* snapshot that satisfy the mode's rating predicate (positive: rating > 0, negative:
\* rating < 0, all: every record, so the sizes agree); a record with rating 0 is
\* displayed only under all.
C12_ModeKeepsExactlyItsRatings ==
    searchQuery = << >> =>
        /\ \A i \in 1..Len(parsedFeedbacksData) :
               /\ parsedFeedbacksData[i] \in Range(originalFeedbacksData)
               /\ RatingPredicate(activeFilter, parsedFeedbacksData[i])
               /\ parsedFeedbacksData[i].data.rating = 0 => activeFilter = "all"
        /\ \A j \in 1..Len(originalFeedbacksData) :
               RatingPredicate(activeFilter, originalFeedbacksData[j])
                   => originalFeedbacksData[j] \in Range(parsedFeedbacksData)
        /\ activeFilter = "all" => Len(parsedFeedbacksData) = Len(originalFeedbacksData)

\* the positive mode on a snapshot that also has a neutral and a negative record
C12_Witness ==
    /\ lastEvent.op = "filter"
    /\ activeFilter = "positive"
    /\ searchQuery = << >>
    /\ parsedFeedbacksData # << >>
    /\ \E j \in 1..Len(originalFeedbacksData) : originalFeedbacksData[j].data.rating = 0
    /\ \E j \in 1..Len(originalFeedbacksData) : originalFeedbacksData[j].data.rating < 0

\* C13: whatever the query, every displayed record is in the result of the same mode
\* with the empty query.
C13_SearchNarrows ==
    Range(parsedFeedbacksData)
        \subseteq Range(FilteredItems(originalFeedbacksData, activeFilter, << >>))

\* a search under the negative mode that keeps some, not all, of the negative records
C13_Witness ==
    /\ lastEvent.op = "search"
    /\ activeFilter = "negative"
    /\ Trim(searchQuery) # << >>
    /\ parsedFeedbacksData # << >>
    /\ Len(parsedFeedbacksData)
           < Len(FilteredItems(originalFeedbacksData, activeFilter, << >>))

IsBlank(text) == \A i \in 1..Len(text) : text[i] = " "

SameLetter(c, d) == c = d \/ {c, d} = {"a", "A"} \/ {c, d} = {"b", "B"}

\* text contains query, letters compared without regard to case
ContainsIgnoringCase(text, query) ==
    \E start \in 0..(Len(text) - Len(query)) :
        \A k \in 1..Len(query) : SameLetter(text[start + k], query[k])

\* the record's transcript title or one of its messages' content contains the query
SearchPasses(record, query) ==
    /\ Has(record, "snapshot")
    /\ \/ /\ Has(record.snapshot.chat, "title")
          /\ ContainsIgnoringCase(record.snapshot.chat.title, query)
       \/ /\ Has(record.snapshot.chat, "chat")
          /\ \E i \in 1..Len(record.snapshot.chat.chat.messages) :
                 /\ Has(record.snapshot.chat.chat.messages[i], "content")
                 /\ ContainsIgnoringCase(record.snapshot.chat.chat.messages[i].content,
                                         query)

\* C14: a record of the snapshot is displayed exactly when it satisfies the mode's
\* rating predicate and, unless the query is empty or whitespace-only, its title or
\* one of its messages' content contains the query, compared case-insensitively; a
\* record with no snapshot passes no such query.
C14_SearchMatchesTitleOrMessage ==
    \A j \in 1..Len(originalFeedbacksData) :
        LET record == originalFeedbacksData[j]
        IN  /\ record \in Range(parsedFeedbacksData)
                <=> /\ RatingPredicate(activeFilter, record)
                    /\ IsBlank(searchQuery) \/ SearchPasses(record, searchQuery)
            /\ (~IsBlank(searchQuery) /\ ~Has(record, "snapshot"))
                   => record \notin Range(parsedFeedbacksData)

\* the query "B" keeps a record by its title "Ab" and one by its message "b a", and
\* drops the record with no snapshot
C14_Witness ==
    /\ lastEvent.op = "search"
    /\ searchQuery = <<"B">>
    /\ activeFilter = "all"
    /\ originalFeedbacksData = <<F1, F2, F3>>
    /\ parsedFeedbacksData = <<F1, F3>>

RECURSIVE IsSubsequence(_, _)
IsSubsequence(part, whole) ==
    IF part = << >> THEN TRUE
    ELSE IF whole = << >> THEN FALSE
    ELSE IF Head(part) = Head(whole)
         THEN IsSubsequence(Tail(part), Tail(whole))
         ELSE IsSubsequence(part, Tail(whole))

\* C15: for every mode and query the displayed list is a subsequence of the
\* snapshot: same relative order, no record more often than in the snapshot.
C15_FilterKeepsOrder ==
    IsSubsequence(parsedFeedbacksData, originalFeedbacksData)

\* two of three records are kept by the positive mode and a query, around a dropped one
C15_Witness ==
    /\ lastEvent.op = "search"
    /\ activeFilter = "positive"
    /\ Trim(searchQuery) # << >>
    /\ originalFeedbacksData = <<F1, F2, F4>>
    /\ parsedFeedbacksData = <<F1, F4>>

\* C16: in every reachable state positiveCount + negativeCount <= totalItems, and
\* the two are equal only when no record of the snapshot has rating 0.
C16_CountsWithinTotal ==
    /\ positiveCount + negativeCount <= totalItems
    /\ positiveCount + negativeCount = totalItems
           => \A j \in 1..Len(originalFeedbacksData) :
                  originalFeedbacksData[j].data.rating # 0

\* scenario A of the spec: one positive, one negative and one neutral record
C16_Witness ==
    /\ originalFeedbacksData = <<F1, F2, F3>>
    /\ totalItems = 3
    /\ positiveCount = 1
    /\ negativeCount = 1

\* C17: hiding the panel changes the visibility flag only: the snapshot, the
\* displayed list, the three statistics, the mode, the query and feedbacks stay.
C17_HideChangesVisibilityOnly ==
    [][(lastEvent'.op = "toggle" /\ showFeedbackAnalysis) =>
          /\ ~showFeedbackAnalysis'
          /\ UNCHANGED <<originalFeedbacksData, parsedFeedbacksData, totalItems,
                         positiveCount, negativeCount, activeFilter, searchQuery,
                         feedbacks>>]_vars

\* the panel was hidden while its filter matched nothing of a non-empty snapshot
C17_Witness ==
    /\ lastEvent.op = "toggle"
    /\ ~showFeedbackAnalysis
    /\ originalFeedbacksData # << >>
    /\ parsedFeedbacksData = << >>
    /\ activeFilter = "positive"
    /\ searchQuery = <<" ", "a">>

\* the positions at which a block of the markup opens
BlockStarts(html) == { i \in 1..Len(html) : html[i] = BlockOpen }

\* the k-th block of the markup: from its opening up to the next opening
Block(html, k) ==
    LET starts == BlockStarts(html)
        nth(n) == CHOOSE i \in starts : Cardinality({ j \in starts : j <= i }) = n
    IN  SubSeq(html, nth(k),
               IF k < Cardinality(starts) THEN nth(k + 1) - 1 ELSE Len(html))

Carries(message, field) == Has(message, field) /\ message[field] # ""

\* C18: formatConversation renders one block per message in input order; the
\* i-th block is labelled User exactly when the i-th message has role user and
\* Assistant otherwise, and carries the feedback marker exactly when that
\* message carries an annotation or a feedbackId; a value that is not an array
\* yields exactly the no-data placeholder.
C18_OneBlockPerMessage ==
    lastEvent.op = "format" =>
        IF conversation.type = "array"
        THEN /\ Cardinality(BlockStarts(conversationHtml)) = Len(conversation.items)
             /\ \A k \in 1..Len(conversation.items) :
                    LET message == conversation.items[k]
                        tokens == Range(Block(conversationHtml, k))
                    IN  /\ (UserLabel \in tokens) <=> (message.role = "user")
                        /\ (AssistantLabel \in tokens) <=> (message.role # "user")
                        /\ (FeedbackMarker \in tokens) <=>
                               (Carries(message, "annotation") \/ Carries(message, "feedbackId"))
        ELSE conversationHtml = Placeholder

C18_Witness ==
    /\ lastEvent.op = "format"
    /\ conversation = JsArray(<<M1, M3>>)
    /\ Cardinality(BlockStarts(conversationHtml)) = 2

\* C19: whenever feedbacks is non-empty the page number is at most the number
\* of pages of feedbacks, so the table shows at least one row.
C19_PageWithinRange ==
    feedbacks # << >> =>
        /\ page <= PageCount(Len(feedbacks))
        /\ PaginatedFeedbacks # << >>

\* C20: deletes that succeed, overlapping or not and in whatever order their
\* responses arrive, remove exactly their own records: feedbacks is the initial
\* list without the records whose delete succeeded, every other record kept in
\* place.  In particular the second response of two overlapping deletes does
\* not bring back the record the first one removed.
C20_OverlappingDeletesBothApply ==
    feedbacks = SelectSeq(InitialFeedbacks, LAMBDA f : f.id \notin deletedIds)

C20_Witness ==
    /\ lastEvent.op = "deleteResponse"
    /\ lastEvent.outcome = "truthy"
    /\ lastEvent.overlapped
    /\ lastEvent.id = 1
    /\ deletedIds = {1, 2}
    /\ feedbacks = <<F3>>

\* the analysis snapshot and the three statistics
SnapshotAndStats ==
    <<originalFeedbacksData, totalItems, positiveCount, negativeCount>>

\* C21: a successful delete changes feedbacks and leaves originalFeedbacksData,
\* parsedFeedbacksData and the three statistics as they were; the snapshot and
\* the statistics change only in a step that populates the snapshot (a toggle
\* or an applied refresh), so the deleted record stays in them until then.
C21_DeleteLeavesAnalysisAlone ==
    [][/\ (lastEvent'.op = "deleteResponse" /\ lastEvent'.outcome = "truthy") =>
              /\ feedbacks' # feedbacks
              /\ UNCHANGED <<SnapshotAndStats, parsedFeedbacksData>>
       /\ SnapshotAndStats' # SnapshotAndStats =>
              lastEvent'.op \in {"toggle", "refreshResponse"}]_vars

\* record 1 was deleted after the snapshot was populated and is still in the
\* snapshot, in the displayed list and in the counts
C21_Witness ==
    /\ lastEvent.op = "deleteResponse"
    /\ lastEvent.outcome = "truthy"
    /\ lastEvent.id = 1
    /\ 1 \notin Ids(feedbacks)
    /\ 1 \in Ids(originalFeedbacksData)
    /\ 1 \in Ids(parsedFeedbacksData)
    /\ totalItems = Len(InitialFeedbacks)
    /\ positiveCount = 1

\* C22: the payload of a share action is built from feedbacks as it is at the
\* share click, no later step changes it, and what a share action transmits is
\* that payload; so a record whose delete succeeds before the 'loaded' signal
\* arrives is still transmitted.
C22_PayloadFixedAtShareClick ==
    [][/\ lastEvent'.op = "share" =>
              shares'[Len(shares')].feedbacksToShare = FeedbacksToShare(feedbacks)
       /\ \A i \in 1..Len(shares) :
              /\ shares'[i].feedbacksToShare = shares[i].feedbacksToShare
              /\ \A k \in (Len(shares[i].posted) + 1)..Len(shares'[i].posted) :
                     shares'[i].posted[k].message = JsonStringify(shares[i].feedbacksToShare)]_vars

\* the only share action transmits record 1 after the delete of record 1 succeeded
C22_Witness ==
    /\ ValidAck(lastEvent)
    /\ lastEvent.posts = 1
    /\ Len(shares) = 1
    /\ Len(shares[1].posted) = 1
    /\ 1 \in Ids(shares[1].posted[1].message.json)
    /\ 1 \in deletedIds
    /\ 1 \notin Ids(feedbacks)

====
